---- MODULE Spec2Model ----
(***************************************************************************)
(* A model of MyApp.py, a Flask console over an S3 client.  The state is   *)
(* the storage provider (buckets, objects), the session's pending flash    *)
(* messages, and a record of the last request: what was asked, which       *)
(* remote calls were issued with which outcome, which messages were        *)
(* flashed, and the response.  One action per route handler.               *)
(*                                                                         *)
(* Keys, file names and bodies are sequences (of characters, of bytes), so *)
(* that endswith, split and concatenation are computed, not assumed.       *)
(* A flashed message is modelled by its f-string as written in the code    *)
(* and the error text str(e) it embeds; the bucket and key names it        *)
(* interpolates are those of the request.                                  *)
(***************************************************************************)
EXTENDS Naturals, Sequences, FiniteSets

VARIABLES
    buckets,     \* provider: the names of the existing buckets
    objects,     \* provider: the stored objects, records [bucket, key, body]
    flashes,     \* session["_flashes"]: the pending messages, oldest first
    req,         \* the last request
    resp,        \* the response to the last request
    calls,       \* the remote calls the last request issued, in order
    added,       \* the messages the last request passed to flash(), in order
    pre,         \* the provider before the last request: [buckets, objects]
    preFlashes,  \* the pending messages the last request arrived with
    client       \* the kind of HTTP client: it keeps the session cookie or not

vars == <<buckets, objects, flashes, req, resp, calls, added, pre, preFlashes,
          client>>

----------------------------------------------------------------------------
(* Universes of the inputs.  The session is a signed cookie: a client that *)
(* keeps cookies ("browser") sends back the pending messages, one that     *)
(* does not ("stateless") starts every request with an empty session.      *)
(* The stateless client ranges over the larger provider, the browser over  *)
(* the longer sessions.                                                    *)

\* The most messages a browser session may hold pending; a request that would
\* exceed it is not taken.
MaxPending == 2

Slash == "/"

Buckets == IF client = "browser" THEN {"b1"} ELSE {"b1", "b2"}

\* Object keys: a folder marker and a file below it.
Keys ==
    IF client = "browser" THEN {<<"d", Slash, "a">>}
    ELSE {<<"d", Slash>>, <<"d", Slash, "a">>}

\* The filename of the uploaded part; <<>> is the part a browser sends when no
\* file was selected.
FileNames == {<<>>, <<"d", Slash, "a">>}

FileBody == <<1>>

\* The folder_name form field, with and without the trailing slash.
FolderNames == {<<"d">>, <<"d", Slash>>}

\* How a remote call ends: it returns, or raises one of the two exception
\* classes the handlers name, or raises any other exception of the client
\* library (a connection failure, a parameter validation failure).
Outcomes ==
    IF client = "browser" THEN {"ok", "ClientError", "EndpointConnectionError"}
    ELSE {"ok", "ClientError", "NoCredentialsError", "EndpointConnectionError"}

----------------------------------------------------------------------------
(* Values. *)

None == {}
Some(x) == {x}

Notice(text, err) == [text |-> text, err |-> err]

CredentialsNotice ==
    Notice(" AWS credentials not found. Please configure them.", "")

\* The messages of the handlers, by the f-string that builds each.
AwsError(e) == Notice(" AWS error: {str(e)}", e)
ErrorAccessingBucket(e) == Notice(" Error accessing bucket: {str(e)}", e)
BucketCreated == Notice(" Bucket '{bucket_name}' created successfully", "")
CreateBucketFailed(e) == Notice(" Failed to create bucket: {str(e)}", e)
BucketDeleted == Notice(" Bucket '{bucket}' deleted successfully", "")
DeleteBucketFailed(e) == Notice(" Failed to delete bucket: {str(e)}", e)
FileUploaded == Notice(" File '{file.filename}' uploaded successfully", "")
UploadFailed(e) == Notice(" Upload failed: {str(e)}", e)
FileDeleted == Notice(" File '{key}' deleted successfully", "")
DeleteFailed(e) == Notice(" Delete failed: {str(e)}", e)
DownloadFailed(e) == Notice(" Download failed: {str(e)}", e)
FileCopied == Notice(" File '{key}' copied to {dest_bucket}/{dest_key}", "")
CopyFailed(e) == Notice(" Copy failed: {str(e)}", e)
FileMoved == Notice(" File '{key}' moved to {dest_bucket}/{dest_key}", "")
MoveFailed(e) == Notice(" Move failed: {str(e)}", e)
FolderCreated ==
    Notice(" Folder '{folder_name}' created in bucket '{bucket}'", "")
CreateFolderFailed(e) == Notice(" Failed to create folder: {str(e)}", e)

CallRec(api, bucket, key, src_bucket, src_key, out) ==
    [api |-> api, bucket |-> bucket, key |-> key,
     src_bucket |-> src_bucket, src_key |-> src_key, out |-> out]

BlankReq ==
    [op |-> "", cred |-> TRUE, bucket |-> "", key |-> <<>>,
     dest_bucket |-> "", has_dest_key |-> FALSE, dest_key |-> <<>>,
     filename |-> <<>>, filebody |-> <<>>, folder_name |-> <<>>]

BlankPage ==
    [status |-> "", bucket |-> "", buckets |-> None, contents |-> {},
     download_name |-> <<>>, body |-> <<>>, shown |-> <<>>]

----------------------------------------------------------------------------
(* The provider's objects. *)

Exists(objs, b, k) == \E o \in objs : o.bucket = b /\ o.key = k

Body(objs, b, k) ==
    IF Exists(objs, b, k)
    THEN (CHOOSE o \in objs : o.bucket = b /\ o.key = k).body
    ELSE <<>>

Put(objs, b, k, body) ==
    {o \in objs : ~(o.bucket = b /\ o.key = k)}
        \cup {[bucket |-> b, key |-> k, body |-> body]}

Remove(objs, b, k) == {o \in objs : ~(o.bucket = b /\ o.key = k)}

KeysOf(objs, b) == {o.key : o \in {x \in objs : x.bucket = b}}

----------------------------------------------------------------------------
(* The request context: the session, the provider, and what the request   *)
(* has done so far.  feasible records that every call said to return did  *)
(* so in a provider state where it can.                                   *)

\* The session the request arrives with.
Cookie == IF client = "browser" THEN flashes ELSE <<>>

NewCtx ==
    [session |-> Cookie, flashed |-> <<>>, calls |-> <<>>,
     buckets |-> buckets, objects |-> objects, feasible |-> TRUE]

Flash(ctx, notice) ==
    [ctx EXCEPT !.session = Append(@, notice), !.flashed = Append(@, notice)]

Issue(ctx, call, can, newBuckets, newObjects) ==
    [ctx EXCEPT !.calls = Append(@, call),
                !.feasible = @ /\ (call.out = "ok" => can),
                !.buckets = IF call.out = "ok" THEN newBuckets ELSE @,
                !.objects = IF call.out = "ok" THEN newObjects ELSE @]

S3ListBuckets(ctx, o) ==
    Issue(ctx, CallRec("list_buckets", "", <<>>, "", <<>>, o),
          TRUE, ctx.buckets, ctx.objects)

S3ListObjectsV2(ctx, b, o) ==
    Issue(ctx, CallRec("list_objects_v2", b, <<>>, "", <<>>, o),
          b \in ctx.buckets, ctx.buckets, ctx.objects)

S3CreateBucket(ctx, b, o) ==
    Issue(ctx, CallRec("create_bucket", b, <<>>, "", <<>>, o),
          b \notin ctx.buckets, ctx.buckets \cup {b}, ctx.objects)

S3DeleteBucket(ctx, b, o) ==
    Issue(ctx, CallRec("delete_bucket", b, <<>>, "", <<>>, o),
          b \in ctx.buckets /\ KeysOf(ctx.objects, b) = {},
          ctx.buckets \ {b}, ctx.objects)

S3UploadFileobj(ctx, body, b, k, o) ==
    Issue(ctx, CallRec("upload_fileobj", b, k, "", <<>>, o),
          b \in ctx.buckets, ctx.buckets, Put(ctx.objects, b, k, body))

S3DeleteObject(ctx, b, k, o) ==
    Issue(ctx, CallRec("delete_object", b, k, "", <<>>, o),
          b \in ctx.buckets, ctx.buckets, Remove(ctx.objects, b, k))

S3DownloadFileobj(ctx, b, k, o) ==
    Issue(ctx, CallRec("download_fileobj", b, k, "", <<>>, o),
          Exists(ctx.objects, b, k), ctx.buckets, ctx.objects)

S3Copy(ctx, sb, sk, db, dk, o) ==
    Issue(ctx, CallRec("copy", db, dk, sb, sk, o),
          Exists(ctx.objects, sb, sk) /\ db \in ctx.buckets,
          ctx.buckets, Put(ctx.objects, db, dk, Body(ctx.objects, sb, sk)))

S3PutObject(ctx, b, k, o) ==
    Issue(ctx, CallRec("put_object", b, k, "", <<>>, o),
          b \in ctx.buckets, ctx.buckets, Put(ctx.objects, b, k, <<>>))

----------------------------------------------------------------------------
(* Responses. *)

Result(ctx, page) ==
    [session |-> ctx.session, flashed |-> ctx.flashed, calls |-> ctx.calls,
     buckets |-> ctx.buckets, objects |-> ctx.objects,
     feasible |-> ctx.feasible, page |-> page]

\* get_flashed_messages() in a template: every pending message, removed from
\* the session.
RenderTemplate(ctx, template, bucket, bucketList, contents) ==
    Result([ctx EXCEPT !.session = <<>>],
           [BlankPage EXCEPT !.status = template, !.bucket = bucket,
                             !.buckets = bucketList, !.contents = contents,
                             !.shown = ctx.session])

RedirectHome(ctx) ==
    Result(ctx, [BlankPage EXCEPT !.status = "redirect:home"])

RedirectListObjects(ctx, bucket) ==
    Result(ctx, [BlankPage EXCEPT !.status = "redirect:list_objects",
                                  !.bucket = bucket])

SendFile(ctx, body, download_name) ==
    Result(ctx, [BlankPage EXCEPT !.status = "send_file", !.body = body,
                                  !.download_name = download_name])

\* An exception no except clause names leaves the handler.
Uncaught(ctx) ==
    Result(ctx, [BlankPage EXCEPT !.status = "uncaught"])

\* except (NoCredentialsError, ClientError)
Caught(o) == o \in {"NoCredentialsError", "ClientError"}

----------------------------------------------------------------------------
(* Helpers of MyApp.py. *)

\* boto3.client("s3"), or None when it raises NoCredentialsError.
get_s3_client(cred) == IF cred THEN Some("s3") ELSE None

\* A variant that reports unavailable without flashing the notice.
ensure_s3_silent(ctx, cred) == [s3 |-> get_s3_client(cred), ctx |-> ctx]

ensure_s3(ctx, cred) ==
    LET s3 == get_s3_client(cred)
    IN  IF s3 = None
        THEN [s3 |-> None, ctx |-> Flash(ctx, CredentialsNotice)]
        ELSE [s3 |-> s3, ctx |-> ctx]

\* A variant that always takes the default.
FormGetDefault(present, value, default) == default

\* request.form.get(field, default)
FormGet(present, value, default) == IF present THEN value ELSE default

\* s.endswith("/")
EndsWithSlash(s) == Len(s) > 0 /\ s[Len(s)] = Slash

\* A variant that appends the slash without looking.
FolderKeyAppend(folder_name) == folder_name \o <<Slash>>

\* if not folder_name.endswith("/"): folder_name += "/"
FolderKey(folder_name) ==
    IF ~EndsWithSlash(folder_name)
    THEN folder_name \o <<Slash>>
    ELSE folder_name

\* The index of the last "/" of s, 0 when it has none.
LastSlash(s) ==
    IF \E i \in 1..Len(s) : s[i] = Slash
    THEN CHOOSE i \in 1..Len(s) :
            s[i] = Slash /\ \A j \in (i + 1)..Len(s) : s[j] # Slash
    ELSE 0

\* A variant that names the attachment by the whole key.
DownloadNameWholeKey(key) == key

\* key.split("/")[-1]
DownloadName(key) == SubSeq(key, LastSlash(key) + 1, Len(key))

\* A variant that takes every part for a file.
FileGivenAlways(filename) == TRUE

\* bool(file): a FileStorage is true when it has a filename.
FileGiven(filename) == filename # <<>>

----------------------------------------------------------------------------
(* The route handlers: the response and the effects of one request, given *)
(* its inputs and how each remote call it reaches ends.                   *)

\* A variant whose error path renders the page before it flashes.
home_flash_after_render(cred, o) ==
    LET e == ensure_s3(NewCtx, cred)
    IN  IF e.s3 = None
        THEN RenderTemplate(e.ctx, "render:home.html", "", None, {})
        ELSE LET c == S3ListBuckets(e.ctx, o)
                 page == RenderTemplate(c, "render:home.html", "", None, {})
             IN  IF o = "ok"
                 THEN RenderTemplate(c, "render:home.html", "",
                                     Some(c.buckets), {})
                 ELSE IF Caught(o)
                 THEN [page EXCEPT !.session = <<AwsError(o)>>,
                                   !.flashed = <<AwsError(o)>>]
                 ELSE Uncaught(c)

home(cred, o) ==
    LET e == ensure_s3(NewCtx, cred)
    IN  IF e.s3 = None
        THEN RenderTemplate(e.ctx, "render:home.html", "", None, {})
        ELSE LET c == S3ListBuckets(e.ctx, o)
             IN  IF o = "ok"
                 THEN RenderTemplate(c, "render:home.html", "",
                                     Some(c.buckets), {})
                 ELSE IF Caught(o)
                 THEN RenderTemplate(Flash(c, AwsError(o)),
                                     "render:home.html", "", None, {})
                 ELSE Uncaught(c)

list_objects(bucket, cred, o1, o2) ==
    LET e == ensure_s3(NewCtx, cred)
    IN  IF e.s3 = None
        THEN RedirectHome(e.ctx)
        ELSE LET c1 == S3ListObjectsV2(e.ctx, bucket, o1)
                 c2 == S3ListBuckets(c1, o2)
                 c  == IF o1 = "ok" THEN c2 ELSE c1
                 o  == IF o1 = "ok" THEN o2 ELSE o1
             IN  IF o = "ok"
                 THEN RenderTemplate(c, "render:objects.html", bucket,
                                     Some(c.buckets), KeysOf(c.objects, bucket))
                 ELSE IF Caught(o)
                 THEN RedirectHome(Flash(c, ErrorAccessingBucket(o)))
                 ELSE Uncaught(c)

create_bucket(bucket_name, cred, o) ==
    LET e == ensure_s3(NewCtx, cred)
    IN  IF e.s3 = None
        THEN RedirectHome(e.ctx)
        ELSE LET c == S3CreateBucket(e.ctx, bucket_name, o)
             IN  IF o = "ok"
                 THEN RedirectHome(Flash(c, BucketCreated))
                 ELSE IF Caught(o)
                 THEN RedirectHome(Flash(c, CreateBucketFailed(o)))
                 ELSE Uncaught(c)

delete_bucket(bucket, cred, o) ==
    LET e == ensure_s3(NewCtx, cred)
    IN  IF e.s3 = None
        THEN RedirectHome(e.ctx)
        ELSE LET c == S3DeleteBucket(e.ctx, bucket, o)
             IN  IF o = "ok"
                 THEN RedirectHome(Flash(c, BucketDeleted))
                 ELSE IF Caught(o)
                 THEN RedirectHome(Flash(c, DeleteBucketFailed(o)))
                 ELSE Uncaught(c)

upload_file(bucket, filename, body, cred, o) ==
    LET e == ensure_s3(NewCtx, cred)
    IN  IF e.s3 = None
        THEN RedirectHome(e.ctx)
        ELSE IF FileGiven(filename)
        THEN LET c == S3UploadFileobj(e.ctx, body, bucket, filename, o)
             IN  IF o = "ok"
                 THEN RedirectListObjects(
                          Flash(c, FileUploaded), bucket)
                 ELSE IF Caught(o)
                 THEN RedirectListObjects(
                          Flash(c, UploadFailed(o)), bucket)
                 ELSE Uncaught(c)
        ELSE RedirectListObjects(e.ctx, bucket)

delete_file(bucket, key, cred, o) ==
    LET e == ensure_s3(NewCtx, cred)
    IN  IF e.s3 = None
        THEN RedirectHome(e.ctx)
        ELSE LET c == S3DeleteObject(e.ctx, bucket, key, o)
             IN  IF o = "ok"
                 THEN RedirectListObjects(
                          Flash(c, FileDeleted), bucket)
                 ELSE IF Caught(o)
                 THEN RedirectListObjects(
                          Flash(c, DeleteFailed(o)), bucket)
                 ELSE Uncaught(c)

download_file(bucket, key, cred, o) ==
    LET e == ensure_s3(NewCtx, cred)
    IN  IF e.s3 = None
        THEN RedirectHome(e.ctx)
        ELSE LET c == S3DownloadFileobj(e.ctx, bucket, key, o)
             IN  IF o = "ok"
                 THEN SendFile(c, Body(c.objects, bucket, key),
                               DownloadName(key))
                 ELSE IF Caught(o)
                 THEN RedirectListObjects(
                          Flash(c, DownloadFailed(o)), bucket)
                 ELSE Uncaught(c)

copy_file(bucket, key, dest_bucket, has_dest_key, dest_key_field, cred, o) ==
    LET e == ensure_s3(NewCtx, cred)
    IN  IF e.s3 = None
        THEN RedirectHome(e.ctx)
        ELSE LET dest_key == FormGet(has_dest_key, dest_key_field, key)
                 c == S3Copy(e.ctx, bucket, key, dest_bucket, dest_key, o)
             IN  IF o = "ok"
                 THEN RedirectListObjects(
                          Flash(c, FileCopied), bucket)
                 ELSE IF Caught(o)
                 THEN RedirectListObjects(
                          Flash(c, CopyFailed(o)), bucket)
                 ELSE Uncaught(c)

move_file(bucket, key, dest_bucket, has_dest_key, dest_key_field, cred, o1, o2) ==
    LET e == ensure_s3(NewCtx, cred)
    IN  IF e.s3 = None
        THEN RedirectHome(e.ctx)
        ELSE LET dest_key == FormGet(has_dest_key, dest_key_field, key)
                 c1 == S3Copy(e.ctx, bucket, key, dest_bucket, dest_key, o1)
                 c2 == S3DeleteObject(c1, bucket, key, o2)
                 c  == IF o1 = "ok" THEN c2 ELSE c1
                 o  == IF o1 = "ok" THEN o2 ELSE o1
             IN  IF o = "ok"
                 THEN RedirectListObjects(
                          Flash(c, FileMoved), bucket)
                 ELSE IF Caught(o)
                 THEN RedirectListObjects(
                          Flash(c, MoveFailed(o)), bucket)
                 ELSE Uncaught(c)

create_folder(bucket, folder_name_field, cred, o) ==
    LET e == ensure_s3(NewCtx, cred)
    IN  IF e.s3 = None
        THEN RedirectHome(e.ctx)
        ELSE LET folder_name == FolderKey(folder_name_field)
                 c == S3PutObject(e.ctx, bucket, folder_name, o)
             IN  IF o = "ok"
                 THEN RedirectListObjects(
                          Flash(c, FolderCreated), bucket)
                 ELSE IF Caught(o)
                 THEN RedirectListObjects(
                          Flash(c, CreateFolderFailed(o)), bucket)
                 ELSE Uncaught(c)

----------------------------------------------------------------------------
(* The state machine: one request at a time. *)

InitState ==
    /\ buckets = {}
    /\ objects = {}
    /\ flashes = <<>>
    /\ req = BlankReq
    /\ resp = BlankPage
    /\ calls = <<>>
    /\ added = <<>>
    /\ pre = [buckets |-> {}, objects |-> {}]
    /\ preFlashes = <<>>

Init == InitState /\ client = "stateless"

InitSession == InitState /\ client = "browser"

Commit(rq, r) ==
    /\ r.feasible
    /\ client = "browser" => Len(r.session) <= MaxPending
    /\ client' = client
    /\ req' = rq
    /\ pre' = [buckets |-> buckets, objects |-> objects]
    /\ preFlashes' = Cookie
    /\ buckets' = r.buckets
    /\ objects' = r.objects
    /\ flashes' = r.session
    /\ calls' = r.calls
    /\ added' = r.flashed
    /\ resp' = r.page

\* An outcome is chosen only for a call the handler reaches; an explicit
\* dest_key is one that differs from the source key (one equal to it gives
\* the request the absent field gives).
Reached(cond, o) == IF cond THEN TRUE ELSE o = "ok"

Home ==
    \E cred \in BOOLEAN, o \in Outcomes :
        /\ Reached(cred, o)
        /\ Commit([BlankReq EXCEPT !.op = "home", !.cred = cred], home(cred, o))

ListObjects ==
    \E bucket \in Buckets, cred \in BOOLEAN, o1 \in Outcomes, o2 \in Outcomes :
        /\ Reached(cred, o1)
        /\ Reached(cred /\ o1 = "ok", o2)
        /\ Commit([BlankReq EXCEPT !.op = "list_objects", !.cred = cred,
                                   !.bucket = bucket],
                  list_objects(bucket, cred, o1, o2))

CreateBucket ==
    \E bucket_name \in Buckets, cred \in BOOLEAN, o \in Outcomes :
        /\ Reached(cred, o)
        /\ Commit([BlankReq EXCEPT !.op = "create_bucket", !.cred = cred,
                                   !.bucket = bucket_name],
                  create_bucket(bucket_name, cred, o))

DeleteBucket ==
    \E bucket \in Buckets, cred \in BOOLEAN, o \in Outcomes :
        /\ Reached(cred, o)
        /\ Commit([BlankReq EXCEPT !.op = "delete_bucket", !.cred = cred,
                                   !.bucket = bucket],
                  delete_bucket(bucket, cred, o))

UploadFile ==
    \E bucket \in Buckets, filename \in FileNames, cred \in BOOLEAN,
       o \in Outcomes :
        LET body == IF filename = <<>> THEN <<>> ELSE FileBody
        IN  /\ Reached(cred /\ filename # <<>>, o)
            /\ Commit([BlankReq EXCEPT !.op = "upload_file", !.cred = cred,
                                       !.bucket = bucket, !.filename = filename,
                                       !.filebody = body],
                      upload_file(bucket, filename, body, cred, o))

DeleteFile ==
    \E bucket \in Buckets, key \in Keys, cred \in BOOLEAN, o \in Outcomes :
        /\ Reached(cred, o)
        /\ Commit([BlankReq EXCEPT !.op = "delete_file", !.cred = cred,
                                   !.bucket = bucket, !.key = key],
                  delete_file(bucket, key, cred, o))

DownloadFile ==
    \E bucket \in Buckets, key \in Keys, cred \in BOOLEAN, o \in Outcomes :
        /\ Reached(cred, o)
        /\ Commit([BlankReq EXCEPT !.op = "download_file", !.cred = cred,
                                   !.bucket = bucket, !.key = key],
                  download_file(bucket, key, cred, o))

CopyFile ==
    \E bucket \in Buckets, key \in Keys, dest_bucket \in Buckets,
       has_dest_key \in BOOLEAN, dest_key \in Keys, cred \in BOOLEAN,
       o \in Outcomes :
        /\ Reached(cred, o)
        /\ IF has_dest_key THEN dest_key # key ELSE dest_key = key
        /\ Commit([BlankReq EXCEPT !.op = "copy_file", !.cred = cred,
                                   !.bucket = bucket, !.key = key,
                                   !.dest_bucket = dest_bucket,
                                   !.has_dest_key = has_dest_key,
                                   !.dest_key = IF has_dest_key THEN dest_key
                                                ELSE <<>>],
                  copy_file(bucket, key, dest_bucket, has_dest_key, dest_key,
                            cred, o))

MoveFile ==
    \E bucket \in Buckets, key \in Keys, dest_bucket \in Buckets,
       has_dest_key \in BOOLEAN, dest_key \in Keys, cred \in BOOLEAN,
       o1 \in Outcomes, o2 \in Outcomes :
        /\ Reached(cred, o1)
        /\ Reached(cred /\ o1 = "ok", o2)
        /\ IF has_dest_key THEN dest_key # key ELSE dest_key = key
        /\ Commit([BlankReq EXCEPT !.op = "move_file", !.cred = cred,
                                   !.bucket = bucket, !.key = key,
                                   !.dest_bucket = dest_bucket,
                                   !.has_dest_key = has_dest_key,
                                   !.dest_key = IF has_dest_key THEN dest_key
                                                ELSE <<>>],
                  move_file(bucket, key, dest_bucket, has_dest_key, dest_key,
                            cred, o1, o2))

CreateFolder ==
    \E bucket \in Buckets, folder_name \in FolderNames, cred \in BOOLEAN,
       o \in Outcomes :
        /\ Reached(cred, o)
        /\ Commit([BlankReq EXCEPT !.op = "create_folder", !.cred = cred,
                                   !.bucket = bucket,
                                   !.folder_name = folder_name],
                  create_folder(bucket, folder_name, cred, o))

Next ==
    \/ Home
    \/ ListObjects
    \/ CreateBucket
    \/ DeleteBucket
    \/ UploadFile
    \/ DeleteFile
    \/ DownloadFile
    \/ CopyFile
    \/ MoveFile
    \/ CreateFolder

Spec == Init /\ [][Next]_vars

SpecSession == InitSession /\ [][Next]_vars

----------------------------------------------------------------------------
(* Properties.  Each is a predicate on the state after a request: the     *)
(* request, the calls it issued, the messages it flashed, its response,   *)
(* and the provider before and after.                                     *)

Handled == req.op # ""

Renders == {"render:home.html", "render:objects.html"}

Mutating ==
    req.op \in {"create_bucket", "delete_bucket", "upload_file", "delete_file",
                "copy_file", "move_file", "create_folder"}

DestKey == IF req.has_dest_key THEN req.dest_key ELSE req.key

SameObject(o1, o2, b, k) ==
    /\ Exists(o1, b, k) = Exists(o2, b, k)
    /\ Body(o1, b, k) = Body(o2, b, k)

ProviderUnchanged == buckets = pre.buckets /\ objects = pre.objects

RedirectsToListing ==
    resp.status = "redirect:list_objects" /\ resp.bucket = req.bucket

\* name is the part of key after its last "/" (all of key when it has none).
IsLastSegment(name, key) ==
    /\ \A i \in 1..Len(name) : name[i] # Slash
    /\ Len(name) <= Len(key)
    /\ \A i \in 1..Len(name) : name[i] = key[Len(key) - Len(name) + i]
    /\ Len(name) = Len(key) \/ key[Len(key) - Len(name)] = Slash

\* C1: whatever the handler, when the credential resolver reports unavailable
\* the request issues no remote call, flashes exactly the fixed credentials
\* notice, and goes home: home renders itself without a bucket list, every
\* other handler redirects to home.
C1_Unavailable ==
    (Handled /\ ~req.cred) =>
        /\ calls = <<>>
        /\ ProviderUnchanged
        /\ added = <<CredentialsNotice>>
        /\ req.op = "home" =>
              resp.status = "render:home.html" /\ resp.buckets = None
        /\ req.op # "home" => resp.status = "redirect:home"

C1_Witness ==
    /\ req.op = "delete_file" /\ ~req.cred
    /\ Exists(pre.objects, req.bucket, req.key)
    /\ resp.status = "redirect:home"

\* C2: however a remote call fails, the handler catches the failure: it
\* flashes one notice carrying the error text and answers with a redirect or
\* a page, never with the failure itself; in list_objects the answer is the
\* redirect to home.
C2_EveryFailureCaught ==
    \A i \in 1..Len(calls) :
        calls[i].out # "ok" =>
            /\ resp.status # "uncaught"
            /\ Len(added) = 1 /\ added[1].err = calls[i].out
            /\ req.op = "list_objects" => resp.status = "redirect:home"

\* C3: a move without a dest_key field copies to (dest_bucket, key) and then
\* deletes (bucket, key); when the copy returns and the delete fails, the
\* destination object exists, the source object exists, and the notice is
\* "Move failed" with the error text.
C3_MoveDeleteFails ==
    (req.op = "move_file" /\ req.cred /\ ~req.has_dest_key) =>
        /\ Len(calls) >= 1
        /\ calls[1] = CallRec("copy", req.dest_bucket, req.key,
                              req.bucket, req.key, calls[1].out)
        /\ calls[1].out = "ok" =>
              /\ Len(calls) = 2
              /\ calls[2] = CallRec("delete_object", req.bucket, req.key,
                                    "", <<>>, calls[2].out)
              /\ calls[2].out # "ok" =>
                    /\ Exists(objects, req.dest_bucket, req.key)
                    /\ Exists(objects, req.bucket, req.key)
                    /\ added = <<MoveFailed(calls[2].out)>>

\* C4: a copy issues exactly one call, a copy from (bucket, key) to
\* (dest_bucket, dest_key), where dest_key is the form field when it is given
\* and the source key when it is not; it issues no delete or put, and the
\* source object is afterwards what it was, whether the copy returned or
\* failed.
C4_Copy ==
    (req.op = "copy_file" /\ req.cred) =>
        /\ Len(calls) = 1
        /\ calls[1] = CallRec("copy", req.dest_bucket, DestKey,
                              req.bucket, req.key, calls[1].out)
        /\ SameObject(objects, pre.objects, req.bucket, req.key)
        /\ buckets = pre.buckets
        /\ calls[1].out = "ok" =>
              /\ Exists(objects, req.dest_bucket, DestKey)
              /\ Body(objects, req.dest_bucket, DestKey)
                    = Body(pre.objects, req.bucket, req.key)
        /\ calls[1].out # "ok" => objects = pre.objects

C4_Witness ==
    /\ req.op = "copy_file" /\ req.cred /\ req.has_dest_key
    /\ req.dest_key # req.key
    /\ calls[1].out = "ok"
    /\ Exists(objects, req.dest_bucket, req.dest_key)
    /\ Exists(objects, req.bucket, req.key)

\* C5: create_folder puts one zero-length object; its key is the folder name
\* followed by "/" when the name does not end in "/", and the folder name
\* itself when it does, so "d" and "d/" both give "d/"; normalising the key
\* again changes nothing.
C5_FolderKey ==
    (req.op = "create_folder" /\ req.cred) =>
        LET n == req.folder_name
            k == calls[1].key
        IN  /\ Len(calls) = 1
            /\ calls[1] = CallRec("put_object", req.bucket, k, "", <<>>,
                                  calls[1].out)
            /\ n[Len(n)] = Slash => k = n
            /\ n[Len(n)] # Slash => k = n \o <<Slash>>
            /\ n \in {<<"d">>, <<"d", Slash>>} => k = <<"d", Slash>>
            /\ FolderKey(k) = k
            /\ calls[1].out = "ok" =>
                  /\ Exists(objects, req.bucket, k)
                  /\ Body(objects, req.bucket, k) = <<>>

C5_Witness ==
    /\ req.op = "create_folder" /\ req.cred
    /\ req.folder_name = <<"d", Slash>>
    /\ calls[1].out = "ok"
    /\ Exists(objects, req.bucket, <<"d", Slash>>)
    /\ ~Exists(pre.objects, req.bucket, <<"d", Slash>>)

C7_NoticeOnce ==
    Handled =>
        IF resp.status \in Renders
        THEN resp.shown = preFlashes \o added /\ flashes = <<>>
        ELSE resp.shown = <<>> /\ flashes = preFlashes \o added

\* A render shows a message that an earlier request left pending.
C7_Witness ==
    /\ resp.status = "render:objects.html"
    /\ preFlashes # <<>>
    /\ added = <<>>
    /\ resp.shown = preFlashes
    /\ flashes = <<>>

C9_MoveOrderOneNotice ==
    /\ (req.op = "move_file" /\ req.cred /\ calls[1].out # "ok") =>
          /\ Len(calls) = 1
          /\ ProviderUnchanged
          /\ added = <<MoveFailed(calls[1].out)>>
    /\ (req.op = "move_file" /\ added = <<FileMoved>>) =>
          /\ Len(calls) = 2
          /\ calls[1].api = "copy" /\ calls[1].out = "ok"
          /\ calls[2].api = "delete_object" /\ calls[2].out = "ok"
    /\ (Mutating /\ ~(req.op = "upload_file" /\ req.cred
                       /\ req.filename = <<>>))
          => Len(added) = 1

\* C10: when a move ends with the "moved" notice, an object with the source's
\* content exists at (dest_bucket, dest_key), whatever the destination, the
\* source itself included.
C10_MovedContentAtDest ==
    (req.op = "move_file" /\ added = <<FileMoved>>) =>
        /\ Exists(objects, req.dest_bucket, DestKey)
        /\ Body(objects, req.dest_bucket, DestKey)
              = Body(pre.objects, req.bucket, req.key)

====
